---- MODULE Spec2Model ----
(***************************************************************************)
(* State-machine model of src/app.py (a Flask application with three       *)
(* SQLAlchemy tables, flask-login sessions and one external HTTP lookup).  *)
(*                                                                         *)
(* The persistent state is the three tables.  The session is Flask's       *)
(* default signed cookie: the server keeps no record of it, so the client  *)
(* is modelled by the cookie in its jar and by the copy of the cookie it   *)
(* held when it last logged out.  Every request names the cookie it        *)
(* carries.                                                                *)
(*                                                                         *)
(* A handler is an operator from the state before the request and the      *)
(* request to the state after it, response included; the action of a route *)
(* applies it.  Spec and SpecFeed handle requests one at a time, Spec to    *)
(* every route, SpecFeed to the account and feed routes with more posts.   *)
(* SpecConc lets the two handlers that read the store and then write it    *)
(* (register, like_post) interleave between workers.                       *)
(***************************************************************************)
EXTENDS Integers, Sequences, FiniteSets

VARIABLES
    users,      \* table user: sequence of rows, row i has primary key i
    posts,      \* table post: set of rows [id, content, user_id, likes]
    comments,   \* table comment: sequence of rows
    jar,        \* the user id in the client's session cookie, 0 if none
    old,        \* the user id in the cookie the client held at its last
                \* logout, 0 if none or after a new login
    resp,       \* the response to the last handled request
    extCalls,   \* external HTTP GETs issued while handling the last request
    likeLog,    \* likeLog[p]: like requests completed on an existing post p
    pc,         \* pc[w]: where the request worker w handles stands (SpecConc)
    loc         \* loc[w]: the local variables of that request

vars == <<users, posts, comments, jar, old, resp, extCalls, likeLog, pc, loc>>

----------------------------------------------------------------------------
\* Bounds of the model: the rows and likes the feed handlers may write in all
\* (posts created, likes counted, comments added), under Spec, which takes
\* requests to every route, and under SpecFeed and SpecConc, which take
\* requests to the account and feed routes only.
MaxWrites == 2
MaxFeedWrites == 3

\* Two requests in flight are what an interleaving needs.
Workers == {"w1", "w2"}

\* request.form.get(...) of a field the request does not carry.
None == "<None>"

Handles == {"ann", "bob"}
Emails == {"a@x", "b@x"}
\* The passwords accounts are registered with, and those logins try.
RegPasswords == {"pw1"}
Passwords == {"pw1", "pw2"}
ZipCodes == {"", "94110"}
Contents == {"hi"}
\* The salts generate_password_hash may draw.
Salts == {3}

\* The post ids the URL of a like may name.
PostIds == 1..MaxFeedWrites
\* The post ids the URL of a comment may name: post 1 exists or not, as the
\* state has it.
CommentPostIds == {1}
Methods == {"GET", "POST"}

----------------------------------------------------------------------------
\* werkzeug.security: a salted digest.  The digest is a function of salt and
\* password that differs between the passwords of the model.
\* password.encode(): the bytes of a password, read as a number.
Encode(password) == IF password = "pw1" THEN 1 ELSE 2

Digest(salt, password) == (Encode(password) * 17 + salt * 5) % 97

\* A faulty variant: the digest is computed without the salt that is stored.
generate_password_hash_unsalted(password, salt) ==
    [method |-> "pbkdf2:sha256", salt |-> salt, digest |-> Digest(0, password)]

generate_password_hash(password, salt) ==
    [method |-> "pbkdf2:sha256", salt |-> salt, digest |-> Digest(salt, password)]

check_password_hash(pwhash, password) ==
    Digest(pwhash.salt, password) = pwhash.digest

----------------------------------------------------------------------------
\* Responses.
NoData == <<>>

Redirect(endpoint, message) ==
    [status |-> 302, target |-> endpoint, flash |-> message, data |-> NoData]

Render(template, message, data) ==
    [status |-> 200, target |-> template, flash |-> message, data |-> data]

\* An exception that leaves the handler: the session is rolled back.
ServerError ==
    [status |-> 500, target |-> "", flash |-> "", data |-> NoData]

\* login_manager.login_view = 'login': what login_required answers to a
\* request whose cookie resolves to no account.
Unauthorized == Redirect("login", "Please log in to access this page.")

----------------------------------------------------------------------------
\* Queries.

\* User.query.filter_by(username=username).first(): the id of the first
\* row with that username, 0 if there is none.
UserByName(us, username) ==
    LET hits == {i \in 1..Len(us) : us[i].username = username}
    IN IF hits = {} THEN 0 ELSE CHOOSE i \in hits : \A j \in hits : i <= j

\* load_user: User.query.get(int(user_id)); 0 stands for no account.
load_user(us, user_id) ==
    IF user_id \in 1..Len(us) THEN user_id ELSE 0

\* login_required: current_user.is_authenticated for the cookie carried.
IsAuthenticated(us, tok) == tok # 0 /\ load_user(us, tok) # 0

\* Post.query.get(post_id): the set of rows with that key (empty or one row).
PostGet(ps, post_id) == {p \in ps : p.id = post_id}

MaxId(ps) ==
    IF ps = {} THEN 0 ELSE CHOOSE m \in {p.id : p \in ps} : \A p \in ps : p.id <= m

\* A faulty variant: order_by(Post.id) without desc().
RECURSIVE OrderByIdAsc(_)
OrderByIdAsc(ps) ==
    IF ps = {} THEN <<>>
    ELSE LET low == CHOOSE p \in ps : \A q \in ps : p.id <= q.id
         IN <<low>> \o OrderByIdAsc(ps \ {low})

\* Post.query.order_by(Post.id.desc()).all()
RECURSIVE OrderByIdDesc(_)
OrderByIdDesc(ps) ==
    IF ps = {} THEN <<>>
    ELSE LET top == CHOOSE p \in ps : \A q \in ps : q.id <= p.id
         IN <<top>> \o OrderByIdDesc(ps \ {top})

\* A faulty variant: the email column without unique=True.
UserInsertOkNoEmail(us, row) ==
    /\ row.username # None
    /\ row.email # None
    /\ \A i \in 1..Len(us) : us[i].username # row.username

\* The unique and NOT NULL constraints of table user, checked at commit.
UserInsertOk(us, row) ==
    /\ row.username # None
    /\ row.email # None
    /\ \A i \in 1..Len(us) : us[i].username # row.username
    /\ \A i \in 1..Len(us) : us[i].email # row.email

\* post.likes += 1 is a read of the row followed by an UPDATE of the column.
ReadLikes(ps, post_id) ==
    LET row == CHOOSE p \in ps : p.id = post_id IN row.likes

\* A faulty variant: an UPDATE without its WHERE clause.
WriteLikesAll(ps, post_id, value) ==
    {[p EXCEPT !.likes = value] : p \in ps}

WriteLikes(ps, post_id, value) ==
    {IF p.id = post_id THEN [p EXCEPT !.likes = value] ELSE p : p \in ps}

----------------------------------------------------------------------------
\* The state a handler works on, as one record.
St ==
    [users |-> users, posts |-> posts, comments |-> comments, likeLog |-> likeLog,
     jar |-> jar, old |-> old, resp |-> resp, extCalls |-> extCalls]

\* The local variables of a handler between its query and its commit.
NoLocals ==
    [new_user |-> [username |-> None, email |-> None,
                   password |-> [method |-> "", salt |-> 0, digest |-> 0],
                   zip_code |-> None],
     post_id |-> 0, likes |-> 0]

Init ==
    /\ users = <<>>
    /\ posts = {}
    /\ comments = <<>>
    /\ jar = 0
    /\ old = 0
    /\ resp = Render("login.html", "", NoData)
    /\ extCalls = 0
    /\ likeLog = [p \in PostIds |-> 0]
    /\ pc = [w \in Workers |-> "idle"]
    /\ loc = [w \in Workers |-> NoLocals]

\* The cookies a request can carry: none, the one in the jar, or the copy of
\* the one held before the last logout.
Carried == {0, jar, old}

\* A handler's return: the response, with no external call made.
Respond(st, r) == [st EXCEPT !.resp = r, !.extCalls = 0]

RECURSIVE SumOver(_, _)
SumOver(f, S) ==
    IF S = {} THEN 0
    ELSE LET x == CHOOSE y \in S : TRUE IN f[x] + SumOver(f, S \ {x})

\* What the feed handlers have written in state st.
WritesOf(st) == Cardinality(st.posts) + Len(st.comments) + SumOver(st.likeLog, PostIds)

\* The like requests in flight (SpecConc), each of which is about to write.
LikesInFlight == Cardinality({w \in Workers : pc[w] = "like_write"})

----------------------------------------------------------------------------
\* The handlers.

NewUser(username, email, password, zip_code, salt) ==
    [username |-> username, email |-> email,
     password |-> generate_password_hash(password, salt), zip_code |-> zip_code]

\* db.session.add(new_user); db.session.commit(); redirect to login.  The
\* IntegrityError of a refused INSERT is not caught by the handler.
RegisterCommit(st, row) ==
    IF UserInsertOk(st.users, row)
    THEN Respond([st EXCEPT !.users = Append(st.users, row)], Redirect("login", ""))
    ELSE Respond(st, ServerError)

\* A faulty variant: the handler without its lookup of the username.
register_nocheck(st, method, username, email, password, zip_code, salt) ==
    IF method = "GET"
    THEN Respond(st, Render("register.html", "", NoData))
    ELSE IF password = None
    THEN Respond(st, ServerError)
    ELSE RegisterCommit(st, NewUser(username, email, password, zip_code, salt))

register(st, method, username, email, password, zip_code, salt) ==
    IF method = "GET"
    THEN Respond(st, Render("register.html", "", NoData))
    ELSE IF UserByName(st.users, username) # 0
    THEN Respond(st, Redirect("register", "Username already exists"))
    ELSE IF password = None
    THEN \* generate_password_hash(None) raises
         Respond(st, ServerError)
    ELSE RegisterCommit(st, NewUser(username, email, password, zip_code, salt))

\* A faulty variant: a message of its own for a username that is not stored.
login_leaky(st, method, username, password) ==
    IF method = "GET"
    THEN Respond(st, Render("login.html", "", NoData))
    ELSE LET user == UserByName(st.users, username)
         IN IF user = 0
            THEN Respond(st, Render("login.html", "Unknown username", NoData))
            ELSE IF password = None
            THEN Respond(st, ServerError)
            ELSE IF check_password_hash(st.users[user].password, password)
            THEN Respond([st EXCEPT !.jar = user, !.old = 0], Redirect("index", ""))
            ELSE Respond(st, Render("login.html", "Invalid username or password", NoData))

login(st, method, username, password) ==
    IF method = "GET"
    THEN Respond(st, Render("login.html", "", NoData))
    ELSE LET user == UserByName(st.users, username)
         IN IF user = 0
            THEN Respond(st, Render("login.html", "Invalid username or password", NoData))
            ELSE IF password = None
            THEN \* check_password_hash(hash, None) raises
                 Respond(st, ServerError)
            ELSE IF check_password_hash(st.users[user].password, password)
            THEN \* login_user(user): the response sets the session cookie
                 Respond([st EXCEPT !.jar = user, !.old = 0], Redirect("index", ""))
            ELSE Respond(st, Render("login.html", "Invalid username or password", NoData))

\* logout_user() removes the user id from the session: the response tells
\* the client to replace its cookie.  Nothing is recorded on the server.
logout(st, tok) ==
    IF ~IsAuthenticated(st.users, tok)
    THEN Respond(st, Unauthorized)
    ELSE Respond([st EXCEPT !.jar = 0, !.old = tok], Redirect("login", ""))

index(st, tok) ==
    IF ~IsAuthenticated(st.users, tok)
    THEN Respond(st, Unauthorized)
    ELSE Respond(st, Render("index.html", "", OrderByIdDesc(st.posts)))

create_post(st, tok, content) ==
    IF ~IsAuthenticated(st.users, tok)
    THEN Respond(st, Unauthorized)
    ELSE IF content = None
    THEN \* content is NOT NULL: the INSERT is refused
         Respond(st, ServerError)
    ELSE Respond([st EXCEPT !.posts = @ \cup {[id |-> MaxId(@) + 1, content |-> content,
                                               user_id |-> tok, likes |-> 0]}],
                 Redirect("index", ""))

\* A faulty variant: the route without @login_required.
like_post_unprotected(st, tok, post_id) ==
    IF PostGet(st.posts, post_id) = {}
    THEN Respond(st, Redirect("index", ""))
    ELSE Respond([st EXCEPT
                     !.posts = WriteLikes(@, post_id, ReadLikes(@, post_id) + 1),
                     !.likeLog[post_id] = @ + 1],
                 Redirect("index", ""))

like_post(st, tok, post_id) ==
    IF ~IsAuthenticated(st.users, tok)
    THEN Respond(st, Unauthorized)
    ELSE IF PostGet(st.posts, post_id) = {}
    THEN Respond(st, Redirect("index", ""))
    ELSE Respond([st EXCEPT
                     !.posts = WriteLikes(@, post_id, ReadLikes(@, post_id) + 1),
                     !.likeLog[post_id] = @ + 1],
                 Redirect("index", ""))

\* The post id is not looked up: the row is inserted whatever it names.
add_comment(st, tok, post_id, content) ==
    IF ~IsAuthenticated(st.users, tok)
    THEN Respond(st, Unauthorized)
    ELSE IF content = None
    THEN Respond(st, ServerError)
    ELSE Respond([st EXCEPT !.comments = Append(@, [content |-> content, user_id |-> tok,
                                                    post_id |-> post_id])],
                 Redirect("index", ""))

\* round((sum / len) * 100, 1), in tenths of a percent.
calculate_civic_engagement_score(answers) ==
    LET total_questions == Len(answers)
        correct_answers == SumOver(answers, 1..Len(answers))
    IN (2000 * correct_answers + total_questions) \div (2 * total_questions)

AnswerSheets == {<<1, 0, 1>>}

civic_quiz(st, tok, method, answers) ==
    IF ~IsAuthenticated(st.users, tok)
    THEN Respond(st, Unauthorized)
    ELSE IF method = "POST"
    THEN Respond(st, Render("quiz_result.html", "",
                            <<calculate_civic_engagement_score(answers)>>))
    ELSE Respond(st, Render("civic_quiz.html", "", NoData))

\* What requests.get and the parsing of its reply can come to: a reply that
\* parses, a status raise_for_status refuses, a transport failure, and a
\* reply whose officialIndices name no official (an IndexError).
ApiReplies == {"ok", "http_error", "transport_error", "bad_index"}

\* not current_user.zip_code
NoZip(zip_code) == zip_code = None \/ zip_code = ""

\* flash(f'Error fetching representative information: {str(e)}')
LookupFailed(reply) ==
    Redirect("index",
             IF reply = "http_error"
             THEN "Error fetching representative information: HTTPError"
             ELSE "Error fetching representative information: ConnectionError")

\* The answer to a lookup request after calls external GETs.
Looked(st, calls, r) == [st EXCEPT !.resp = r, !.extCalls = calls]

\* A faulty variant: a failed call is tried once more before giving up.
representatives_retry(st, tok, reply) ==
    IF ~IsAuthenticated(st.users, tok)
    THEN Respond(st, Unauthorized)
    ELSE IF NoZip(st.users[tok].zip_code)
    THEN Respond(st, Redirect("index", "Please update your zip code in your profile."))
    ELSE IF reply = "ok"
    THEN Looked(st, 1, Render("representatives.html", "", NoData))
    ELSE IF reply = "bad_index"
    THEN Looked(st, 1, ServerError)
    ELSE Looked(st, 2, LookupFailed(reply))

representatives(st, tok, reply) ==
    IF ~IsAuthenticated(st.users, tok)
    THEN Respond(st, Unauthorized)
    ELSE IF NoZip(st.users[tok].zip_code)
    THEN Respond(st, Redirect("index", "Please update your zip code in your profile."))
    ELSE \* one requests.get; nothing in the handler calls it again
         IF reply = "ok"
         THEN Looked(st, 1, Render("representatives.html", "", NoData))
         ELSE IF reply = "bad_index"
         THEN Looked(st, 1, ServerError)
         ELSE Looked(st, 1, LookupFailed(reply))

contact_rep(st, tok, method) ==
    IF ~IsAuthenticated(st.users, tok)
    THEN Respond(st, Unauthorized)
    ELSE IF method = "POST"
    THEN Respond(st, Redirect("representatives", "Message sent"))
    ELSE Respond(st, Render("contact_rep.html", "", NoData))

----------------------------------------------------------------------------
\* The routes: a request handled start to finish is one step to the state
\* its handler returns.  A request that would write past max is not taken.
Handle(st, max) ==
    \E after \in {st} :
        /\ IF after.posts = posts /\ after.comments = comments /\ after.likeLog = likeLog
           THEN TRUE
           ELSE WritesOf(after) + LikesInFlight <= max
        /\ users' = after.users
        /\ posts' = after.posts
        /\ comments' = after.comments
        /\ likeLog' = after.likeLog
        /\ jar' = after.jar
        /\ old' = after.old
        /\ resp' = after.resp
        /\ extCalls' = after.extCalls

Register ==
    /\ \/ Handle(register(St, "GET", None, None, None, None, 0), 0)
       \/ \E u \in Handles, e \in Emails \cup {None}, p \in RegPasswords \cup {None},
             z \in ZipCodes, s \in Salts :
             Handle(register(St, "POST", u, e, p, z, s), 0)
    /\ UNCHANGED <<pc, loc>>

Login ==
    /\ \/ Handle(login(St, "GET", None, None), 0)
       \/ \E u \in Handles, p \in Passwords \cup {None} : Handle(login(St, "POST", u, p), 0)
    /\ UNCHANGED <<pc, loc>>

Logout ==
    /\ \E tok \in Carried : Handle(logout(St, tok), 0)
    /\ UNCHANGED <<pc, loc>>

Index ==
    /\ \E tok \in Carried : Handle(index(St, tok), 0)
    /\ UNCHANGED <<pc, loc>>

CreatePost(max) ==
    /\ \E tok \in Carried, t \in Contents \cup {None} : Handle(create_post(St, tok, t), max)
    /\ UNCHANGED <<pc, loc>>

LikePost(max) ==
    /\ \E tok \in Carried, i \in PostIds : Handle(like_post(St, tok, i), max)
    /\ UNCHANGED <<pc, loc>>

AddComment(max) ==
    /\ \E tok \in Carried, i \in CommentPostIds, t \in Contents \cup {None} :
          Handle(add_comment(St, tok, i, t), max)
    /\ UNCHANGED <<pc, loc>>

CivicQuiz ==
    /\ \E tok \in Carried :
          \/ Handle(civic_quiz(St, tok, "GET", <<>>), 0)
          \/ \E a \in AnswerSheets : Handle(civic_quiz(St, tok, "POST", a), 0)
    /\ UNCHANGED <<pc, loc>>

Representatives ==
    /\ \E tok \in Carried, r \in ApiReplies : Handle(representatives(St, tok, r), 0)
    /\ UNCHANGED <<pc, loc>>

ContactRep ==
    /\ \E tok \in Carried, m \in Methods : Handle(contact_rep(St, tok, m), 0)
    /\ UNCHANGED <<pc, loc>>

Next ==
    \/ Register
    \/ Login
    \/ Logout
    \/ Index
    \/ CreatePost(MaxWrites)
    \/ LikePost(MaxWrites)
    \/ AddComment(MaxWrites)
    \/ CivicQuiz
    \/ Representatives
    \/ ContactRep

Spec == Init /\ [][Next]_vars

\* The account and feed routes.
NextFeed ==
    \/ Register
    \/ Login
    \/ Logout
    \/ Index
    \/ CreatePost(MaxFeedWrites)
    \/ LikePost(MaxFeedWrites)
    \/ AddComment(MaxFeedWrites)

SpecFeed == Init /\ [][NextFeed]_vars

----------------------------------------------------------------------------
\* The handlers that read the store and then write it, in two steps: other
\* requests are handled between the query and the commit.

\* register up to the commit (lines 63-76): the lookup, and the row built.
RegisterQuery(w) ==
    /\ pc[w] = "idle"
    /\ \E u \in Handles, e \in Emails, p \in RegPasswords, z \in ZipCodes, s \in Salts :
          IF UserByName(users, u) # 0
          THEN /\ Handle(Respond(St, Redirect("register", "Username already exists")), 0)
               /\ UNCHANGED <<pc, loc>>
          ELSE /\ pc' = [pc EXCEPT ![w] = "register_commit"]
               /\ loc' = [loc EXCEPT ![w].new_user = NewUser(u, e, p, z, s)]
               /\ UNCHANGED <<users, posts, comments, likeLog, jar, old, resp, extCalls>>

\* db.session.commit() and the redirect (lines 77-79).
RegisterFinish(w) ==
    /\ pc[w] = "register_commit"
    /\ Handle(RegisterCommit(St, loc[w].new_user), 0)
    /\ pc' = [pc EXCEPT ![w] = "idle"]
    /\ loc' = [loc EXCEPT ![w] = NoLocals]

\* like_post up to the read of post.likes (lines 120-122).
LikeRead(w) ==
    /\ pc[w] = "idle"
    /\ \E tok \in Carried, i \in PostIds :
          IF ~IsAuthenticated(users, tok)
          THEN /\ Handle(Respond(St, Unauthorized), 0)
               /\ UNCHANGED <<pc, loc>>
          ELSE IF PostGet(posts, i) = {}
          THEN /\ Handle(Respond(St, Redirect("index", "")), 0)
               /\ UNCHANGED <<pc, loc>>
          ELSE /\ WritesOf(St) + LikesInFlight < MaxFeedWrites
               /\ pc' = [pc EXCEPT ![w] = "like_write"]
               /\ loc' = [loc EXCEPT ![w].post_id = i, ![w].likes = ReadLikes(posts, i)]
               /\ UNCHANGED <<users, posts, comments, likeLog, jar, old, resp, extCalls>>

\* The state after the UPDATE of a like whose request read likes_read.
\* A variant that is not the code: UPDATE post SET likes = likes + 1, the
\* increment done by the store on the value it holds at the write.
like_write_atomic(st, post_id, likes_read) ==
    Respond([st EXCEPT !.posts = WriteLikes(@, post_id, ReadLikes(@, post_id) + 1),
                       !.likeLog[post_id] = @ + 1],
            Redirect("index", ""))

\* The UPDATE with the value computed from the read, and the commit
\* (lines 122-124).
like_write(st, post_id, likes_read) ==
    Respond([st EXCEPT !.posts = WriteLikes(@, post_id, likes_read + 1),
                       !.likeLog[post_id] = @ + 1],
            Redirect("index", ""))

LikeWrite(w) ==
    /\ pc[w] = "like_write"
    /\ LET st == like_write(St, loc[w].post_id, loc[w].likes)
       IN /\ users' = st.users
          /\ posts' = st.posts
          /\ comments' = st.comments
          /\ likeLog' = st.likeLog
          /\ jar' = st.jar
          /\ old' = st.old
          /\ resp' = st.resp
          /\ extCalls' = st.extCalls
    /\ pc' = [pc EXCEPT ![w] = "idle"]
    /\ loc' = [loc EXCEPT ![w] = NoLocals]

LoginConc ==
    /\ \E u \in Handles, p \in Passwords : Handle(login(St, "POST", u, p), 0)
    /\ UNCHANGED <<pc, loc>>

CreatePostConc ==
    /\ \E tok \in Carried, t \in Contents : Handle(create_post(St, tok, t), MaxFeedWrites)
    /\ UNCHANGED <<pc, loc>>

NextConc ==
    \/ \E w \in Workers : RegisterQuery(w)
    \/ \E w \in Workers : RegisterFinish(w)
    \/ LoginConc
    \/ CreatePostConc
    \/ \E w \in Workers : LikeRead(w)
    \/ \E w \in Workers : LikeWrite(w)

SpecConc == Init /\ [][NextConc]_vars

----------------------------------------------------------------------------
\* Properties.

HandleUsed(u) == \E i \in 1..Len(users) : users[i].username = u
EmailUsed(e) == \E i \in 1..Len(users) : users[i].email = e

\* The account stored in us under handle u accepts password p.
Accepts(us, u, p) ==
    \E i \in 1..Len(us) :
        /\ us[i].username = u
        /\ Digest(us[i].password.salt, p) = us[i].password.digest

InvalidCredentials == Render("login.html", "Invalid username or password", NoData)
DuplicateHandle == Redirect("register", "Username already exists")
MissingZip == Redirect("index", "Please update your zip code in your profile.")

\* State st after a request that only answered r.
Only(st, r) == [st EXCEPT !.resp = r, !.extCalls = 0]

\* after is before with one account more, which carries handle u and a hash
\* that password p matches, answered with the redirect to the login form.
Registered(before, after, u, p) ==
    /\ Len(after.users) = Len(before.users) + 1
    /\ \A i \in 1..Len(before.users) : after.users[i] = before.users[i]
    /\ after.users[Len(after.users)].username = u
    /\ Accepts(after.users, u, p)
    /\ after.resp = Redirect("login", "")

\* after is before with the account of handle u logged in.
LoggedIn(before, after, u) ==
    /\ after.jar \in 1..Len(before.users)
    /\ before.users[after.jar].username = u
    /\ after.users = before.users
    /\ after.resp = Redirect("index", "")

\* C1 as stated: every registration request whose handle is not yet used,
\* whatever its contact address, stores a new account with that handle, and
\* a login with the same handle and password then succeeds.
C1_AnyFreshHandleRegisters ==
    \A u \in Handles, e \in Emails, p \in RegPasswords, z \in ZipCodes, s \in Salts :
        ~HandleUsed(u)
            => LET after == register(St, "POST", u, e, p, z, s)
               IN /\ Registered(St, after, u, p)
                  /\ LoggedIn(after, login(after, "POST", u, p), u)

\* C1 as amended: a registration request that carries a handle, a contact
\* address and a password, with neither the handle nor the contact address
\* used by a stored account, stores a new account with that handle and a
\* hash of that password and redirects to login, and a login with the same
\* handle and password then succeeds; no step changes or removes a stored
\* account; and in every state a login with the handle of a stored account
\* and a password its hash matches puts that account in the session and
\* redirects to the feed.
C1_FreshHandleAndEmailRegisters ==
    /\ [](\A u \in Handles, e \in Emails, p \in RegPasswords, z \in ZipCodes, s \in Salts :
            (~HandleUsed(u) /\ ~EmailUsed(e))
                => LET after == register(St, "POST", u, e, p, z, s)
                   IN /\ Registered(St, after, u, p)
                      /\ LoggedIn(after, login(after, "POST", u, p), u))
    /\ [](\A u \in Handles, p \in Passwords :
            Accepts(users, u, p) => LoggedIn(St, login(St, "POST", u, p), u))
    /\ [][/\ Len(users') >= Len(users)
          /\ \A i \in 1..Len(users) : users'[i] = users[i]]_vars

\* Two accounts are stored and the second has just logged in.
C1_Witness ==
    /\ Len(users) = 2
    /\ jar = 2
    /\ resp = Redirect("index", "")

\* C2: a register request whose handle is the handle of a stored account,
\* whatever its other fields (present or not), reports the duplicate handle,
\* redirects to the registration form and leaves everything else, the stored
\* accounts with their hashes included, as it is.
C2_DuplicateHandleFails ==
    \A u \in Handles, e \in Emails \cup {None}, p \in RegPasswords \cup {None},
       z \in ZipCodes \cup {None}, s \in Salts :
        HandleUsed(u) => register(St, "POST", u, e, p, z, s) = Only(St, DuplicateHandle)

\* Both handles are stored and a registration has just been refused.
C2_Witness ==
    /\ resp = DuplicateHandle
    /\ Len(users) = 2

\* The states the handlers of the protected routes return for a request
\* that carries the cookie tok.
Protected(st, tok) ==
    {index(st, tok), logout(st, tok)}
        \cup {create_post(st, tok, t) : t \in Contents \cup {None}}
        \cup {like_post(st, tok, i) : i \in PostIds}
        \cup {add_comment(st, tok, i, t) : i \in PostIds, t \in Contents \cup {None}}
        \cup {civic_quiz(st, tok, m, a) : m \in Methods, a \in AnswerSheets}
        \cup {representatives(st, tok, r) : r \in ApiReplies}
        \cup {contact_rep(st, tok, m) : m \in Methods}

\* C3: a request to a protected route that carries no session is answered
\* with the redirect to login and nothing else: the tables and the counters
\* stay as they are and no external call is made.
C3_AnonymousIsTurnedAway ==
    Protected(St, 0) = {Only(St, Unauthorized)}

\* An anonymous request turned away while a post exists that it could have
\* read, liked or commented.
C3_Witness ==
    /\ resp = Unauthorized
    /\ posts # {}
    /\ jar = 0

Ids(ps) == {p.id : p \in ps}

\* C4 (SpecFeed): with requests handled one at a time, a like request of an
\* authenticated caller on an existing post adds exactly 1 to that post's
\* counter and leaves every other post as it is; no step removes a post or
\* lowers a counter; and every counter is non-negative and equals the number
\* of like requests completed on its post.
C4_LikesCountRequests ==
    /\ [](\A tok \in Carried, i \in Ids(posts) :
            IsAuthenticated(users, tok)
                => LET after == like_post(St, tok, i)
                   IN /\ Ids(after.posts) = Ids(posts)
                      /\ ReadLikes(after.posts, i) = ReadLikes(posts, i) + 1
                      /\ \A p \in posts : p.id # i => p \in after.posts)
    /\ [][\A p \in posts : \E q \in posts' : q.id = p.id /\ q.likes >= p.likes]_vars
    /\ [](\A p \in posts : p.likes >= 0 /\ p.likes = likeLog[p.id])

\* A post liked twice.
C4_Witness ==
    \E p \in posts : p.likes = 2 /\ likeLog[p.id] = 2

\* The feed as the first account is shown it.
Feed(st) == index(st, 1).resp.data

\* C5 (SpecFeed): the feed the index handler answers with holds every stored post
\* exactly once in strictly descending order of id; no step removes a post
\* or changes an id, and a created post gets an id above every stored one,
\* so that descending id is reverse creation order whatever likes and
\* comments come in between.
C5_NewestFirst ==
    /\ [](users # <<>>
            => LET l == Feed(St)
               IN /\ Len(l) = Cardinality(posts)
                  /\ {l[k] : k \in 1..Len(l)} = posts
                  /\ \A j, k \in 1..Len(l) : j < k => l[j].id > l[k].id)
    /\ [][/\ Ids(posts) \subseteq Ids(posts')
          /\ Cardinality(posts') = Cardinality(Ids(posts'))
          /\ \A i \in Ids(posts') \ Ids(posts) : \A j \in Ids(posts) : i > j]_vars

\* The feed of three posts: P3, P2, P1.
C5_Witness ==
    /\ resp.target = "index.html"
    /\ Len(resp.data) = 3
    /\ resp.data[1].id = 3
    /\ resp.data[2].id = 2
    /\ resp.data[3].id = 1

C7_AtMostOneLookup ==
    /\ extCalls \in {0, 1}
    /\ \A tok \in Carried, r \in ApiReplies :
          IsAuthenticated(users, tok)
              => LET after == representatives(St, tok, r)
                 IN IF users[tok].zip_code \in {"", None}
                    THEN after = Only(St, MissingZip)
                    ELSE /\ after.extCalls = 1
                         /\ after = [St EXCEPT !.resp = after.resp, !.extCalls = 1]
                         /\ (r \in {"http_error", "transport_error"}
                                => /\ after.resp.status = 302
                                   /\ after.resp.target = "index"
                                   /\ after.resp = LookupFailed(r))

\* A lookup that failed after its one call.
C7_Witness ==
    /\ extCalls = 1
    /\ resp = LookupFailed("http_error")

\* What a client that is not logged in may be shown.
PublicPages == {"login.html", "register.html"}

\* C8 as stated: from a logout until the next successful login, every
\* request to a protected route, also one that carries the cookie issued at
\* the login before, is redirected to login: no protected page is answered.
C8_LoggedOutCookieRejected ==
    (jar = 0 /\ old # 0) => (resp.status = 200 => resp.target \in PublicPages)

\* C9 (SpecConc): no two stored accounts share a handle or a contact address, whatever
\* the interleaving of register requests.
C9_UniqueHandleAndEmail ==
    \A i, j \in 1..Len(users) :
        i # j => /\ users[i].username # users[j].username
                 /\ users[i].email # users[j].email

\* Two register requests found their handles free and are about to commit,
\* while a third has stored the handle of the one and the contact address of
\* the other in between.
C9_Witness ==
    /\ \E w \in Workers :
          /\ pc[w] = "register_commit"
          /\ HandleUsed(loc[w].new_user.username)
    /\ \E w \in Workers :
          /\ pc[w] = "register_commit"
          /\ ~HandleUsed(loc[w].new_user.username)
          /\ EmailUsed(loc[w].new_user.email)

\* C10 (SpecConc): the write of a like stores the value its request read plus 1,
\* whatever the counter holds by then, so a counter never exceeds, and can
\* fall behind, the number of likes completed on its post.
C10_WriteOfStaleRead ==
    /\ [][\A w \in Workers :
            (pc[w] = "like_write" /\ pc'[w] = "idle")
                => ReadLikes(posts', loc[w].post_id) = loc[w].likes + 1]_vars
    /\ [](\A p \in posts : p.likes <= likeLog[p.id])

\* Two likes completed on a post whose counter went up by 1 only.
C10_LostUpdate ==
    \E p \in posts : likeLog[p.id] = 2 /\ p.likes = 1
====
